---- MODULE Spec2Model ----
(***************************************************************************)
(* Model of bot.py: the e-paper display server.                            *)
(*                                                                         *)
(* Three kinds of threads touch the module globals and the files:          *)
(*   - the socket thread: one asyncio loop running one ws_handler          *)
(*     coroutine per connection; coroutines change only at an await;       *)
(*   - the chat thread: the Telegram handlers, one update at a time;       *)
(*   - executor threads: run_in_executor jobs (quote, photo, refill).      *)
(* Threads interleave between statements; a job somebody awaits is         *)
(* modelled as steps of the awaiting handler, a fire-and-forget refill as  *)
(* an entry of `refills`.                                                  *)
(***************************************************************************)
EXTENDS Integers, Sequences, FiniteSets, TLC

VARIABLES
    \* ---- module globals (lines 58-82) ----
    friends_mode,                \* line 63
    xkcd_mode,                   \* line 64
    update_duration_minutes,     \* line 62
    m5_battery_percent,          \* line 65
    preloaded_xkcd_image_ready,  \* line 82
    \* ---- files ----
    settings_file,               \* SETTINGS_FILE: NoSettings or the record saved
    image_file,                  \* IMAGE_FILE, the DisplayRaster
    preloaded_file,              \* PRELOADED_XKCD_FILE, the PrefetchSlot payload
    \* ---- threads ----
    chat_pc,                     \* the chat thread's position
    chat_data,                   \* save_settings on the chat thread: `data`
    ws_pc, ws_loc,               \* per connection: position and locals
    refills,                     \* fire-and-forget refills, per executor slot
    \* ---- budgets of the exploration ----
    n_events, n_restarts,
    \* ---- history (not program state) ----
    mode_hist,                   \* the last two mode commands that returned
    ever_produced,               \* some image production has succeeded
    slot_fresh,                  \* xkcd_next.png holds the payload of a
                                 \* successful refill no take has copied yet
    last_refill,                 \* how the execution of preload_xkcd_comic
                                 \* that returned last ended: "ok", "failed"
                                 \* ("none": none has returned since the start)
    \* ---- Sleep Scheduler harness (SpecSleep) ----
    sl_now,          \* the value datetime.datetime.now() returned
    sl_cfg,          \* update_duration_minutes at the call
    sl_result,       \* the value returned (0: not called yet)
    sl_pc,           \* "idle" | "call" | "done"
    \* ---- telemetry harness (SpecTelemetry) ----
    tm_msg,          \* the message the device sends
    \* ---- the Image Origin Server (SpecOrigin) ----
    http_reply,      \* what handle_image answered last ("none": no request)
    \* ---- Image Normalizer harness (SpecImage) ----
    im_in,           \* the input: a decoded image or the material of a quote
    im_out,          \* the raster written (NoRaster: none written)
    im_by,           \* the function that ran ("none": none yet)
    \* ---- the chat the update in hand comes from (SpecChats) ----
    chat_from        \* update.effective_chat.id

mode_vars == <<friends_mode, xkcd_mode>>
global_vars == <<friends_mode, xkcd_mode, update_duration_minutes,
                 m5_battery_percent, preloaded_xkcd_image_ready>>
file_vars == <<settings_file, image_file, preloaded_file>>
ws_vars == <<ws_pc, ws_loc>>
budget_vars == <<n_events, n_restarts>>
hist_vars == <<mode_hist, ever_produced, slot_fresh, last_refill>>
chat_vars == <<chat_pc, chat_data>>
main_vars == <<global_vars, file_vars, chat_vars, ws_vars, refills,
               budget_vars, hist_vars>>
sleep_vars == <<sl_now, sl_cfg, sl_result, sl_pc>>
img_vars == <<im_in, im_out, im_by>>
other_vars == <<sleep_vars, tm_msg, http_reply, img_vars, chat_from>>

----------------------------------------------------------------------------
(* Program constants *)
NIGHT_START_HOUR == 22
NIGHT_START_MINUTE == 30
MORNING_WAKE_HOUR == 6
MORNING_WAKE_MINUTE == 30

----------------------------------------------------------------------------
(* datetime arithmetic as the standard library does it.  A datetime of one *)
(* fixed date is [hour, minute, second, microsecond]; two datetimes of the *)
(* same date compare lexicographically.                                    *)

DateTime(h, m, s, us) == [hour |-> h, minute |-> m, second |-> s, microsecond |-> us]

SecondOfDay(t) == t.hour * 3600 + t.minute * 60 + t.second

\* a < b for datetimes of the same date
DtLT(a, b) ==
    \/ SecondOfDay(a) < SecondOfDay(b)
    \/ SecondOfDay(a) = SecondOfDay(b) /\ a.microsecond < b.microsecond

DtGE(a, b) == ~DtLT(a, b)
DtGT(a, b) == DtLT(b, a)

\* (b + days) - a as a normalized timedelta: 0 <= microseconds < 10^6
TimeDelta(days, b, a) ==
    LET secs == days * 86400 + SecondOfDay(b) - SecondOfDay(a)
        us   == b.microsecond - a.microsecond
    IN  IF us < 0
        THEN [seconds |-> secs - 1, microseconds |-> us + 1000000]
        ELSE [seconds |-> secs, microseconds |-> us]

\* int(td.total_seconds() / 60).  total_seconds() is seconds + microseconds/10^6
\* as a double; every delta here is below 2^15 seconds with microsecond
\* resolution, so the double quotient never rounds across an integer and int()
\* truncates the exact quotient toward zero.  The microseconds (< 1 s) never
\* carry into a minute.
IntMinutes(td) ==
    IF td.seconds >= 0
    THEN td.seconds \div 60
    ELSE -((-td.seconds - (IF td.microseconds > 0 THEN 1 ELSE 0)) \div 60)

\* line 159: the night-window test (and, for comparison, the test with
\* either boundary on the other side)
InNightWindow_strict(now) ==
    LET night_start_time == DateTime(NIGHT_START_HOUR, NIGHT_START_MINUTE, 0, 0)
        morning_wakeup_time == DateTime(MORNING_WAKE_HOUR, MORNING_WAKE_MINUTE, 0, 0)
    IN  DtGT(now, night_start_time) \/ DtLT(now, morning_wakeup_time)

InNightWindow_le(now) ==
    LET night_start_time == DateTime(NIGHT_START_HOUR, NIGHT_START_MINUTE, 0, 0)
        morning_wakeup_time == DateTime(MORNING_WAKE_HOUR, MORNING_WAKE_MINUTE, 0, 0)
    IN  DtGE(now, night_start_time) \/ ~DtGT(now, morning_wakeup_time)

InNightWindow(now) ==
    LET night_start_time == DateTime(NIGHT_START_HOUR, NIGHT_START_MINUTE, 0, 0)
        morning_wakeup_time == DateTime(MORNING_WAKE_HOUR, MORNING_WAKE_MINUTE, 0, 0)
    IN  DtGE(now, night_start_time) \/ DtLT(now, morning_wakeup_time)

\* lines 164-172: minutes to sleep inside the night window (and, for
\* comparison, the computation without the minute of margin)
NightSleepMinutes_nomargin(now) ==
    LET morning_wakeup_time == DateTime(MORNING_WAKE_HOUR, MORNING_WAKE_MINUTE, 0, 0)
        days == IF DtGT(now, morning_wakeup_time) THEN 1 ELSE 0
    IN  IntMinutes(TimeDelta(days, morning_wakeup_time, now))

NightSleepMinutes(now) ==
    LET morning_wakeup_time == DateTime(MORNING_WAKE_HOUR, MORNING_WAKE_MINUTE, 0, 0)
        days == IF DtGT(now, morning_wakeup_time) THEN 1 ELSE 0
        delta == TimeDelta(days, morning_wakeup_time, now)
    IN  IntMinutes(delta) + 1

get_next_sleep_duration_minutes(now, duration) ==
    IF InNightWindow(now) THEN NightSleepMinutes(now) ELSE duration

----------------------------------------------------------------------------
(* Bounds and input sets *)

\* events of the environment in a behaviour (chat updates handled, device
\* messages received, image requests served, restarts); restarts among them
MaxEvents == 3
MaxRestarts == 1
\* executor slots for fire-and-forget refills (refills in flight at once)
MaxRefills == 2

\* connections and executor slots are numbered; the device's connection
\* is the first, a second one is opened in SpecTwo only
Conns == {1, 2}
DeviceConns == {1}
RefillSlots == 1..MaxRefills

\* the threads that write files
Writer(thread, id) == [thread |-> thread, id |-> id]
NoWriter == Writer("none", 0)
ChatWriter == Writer("chat", 0)
WsWriter(c) == Writer("ws", c)
RefillWriter(i) == Writer("refill", i)

\* a telemetry value a device reports; two of the intervals the settings
\* keyboard offers (lines 657-663)
BatteryValues == {55}
\* callback payloads, as the fields data.split(":") yields; the second field
\* is the sequence of its characters
Digits == <<"0", "1", "2", "3", "4", "5", "6", "7", "8", "9">>
RECURSIVE DigitsValue(_)
DigitsValue(s) ==
    IF s = <<>> THEN 0
    ELSE 10 * DigitsValue(SubSeq(s, 1, Len(s) - 1))
         + (CHOOSE d \in 0..9 : Digits[d + 1] = s[Len(s)])
IsDigits(s) == s # <<>> /\ \A i \in 1..Len(s) : \E d \in 1..10 : Digits[d] = s[i]
\* int(text), line 679, raises ValueError unless text is an optional sign
\* and decimal digits
IsIntLiteral(text) ==
    \/ IsDigits(text)
    \/ text # <<>> /\ text[1] = "-" /\ IsDigits(Tail(text))
int(text) ==
    IF IsDigits(text) THEN DigitsValue(text) ELSE 0 - DigitsValue(Tail(text))
\* data.startswith("duration:"), line 677
startswith_duration(data) == Len(data) >= 2 /\ data[1] = "duration"
\* the payloads of the keyboard settings_command sends (lines 657-667)
DurationChoices == {<<"duration", <<"5">>>>, <<"duration", <<"3", "0">>>>,
                    <<"show_status">>}
\* payloads no button carries: a client may send any data in a callback query
OtherPayloads == {<<"duration", <<"0">>>>, <<"duration", <<"-", "1">>>>,
                  <<"duration", <<"x">>>>}
\* what datetime.datetime.now() returns at a poll: midday, the first instant
\* of the night window
NowSamples == {DateTime(12, 0, 0, 0), DateTime(22, 30, 0, 0)}

\* inbound messages: <command>[|battery:<text>]
BatteryFields ==
    {[kind |-> "absent", val |-> 0], [kind |-> "malformed", val |-> 0]}
    \cup {[kind |-> "int", val |-> b] : b \in BatteryValues}
Messages == [base : {"checkForImage", "other"}, battery : BatteryFields]
NoMessage == [base |-> "none", battery |-> [kind |-> "absent", val |-> 0]]

----------------------------------------------------------------------------
(* Files.  An image file is absent ("none"), being written by the thread   *)
(* `by` that opened and truncated it last ("partial"), complete ("whole",  *)
(* `from` telling what produced the bytes) or left incomplete ("broken").  *)

NoFile == [st |-> "none", by |-> NoWriter, from |-> "none"]
Partial(w) == [st |-> "partial", by |-> w, from |-> "none"]
Whole(from) == [st |-> "whole", by |-> NoWriter, from |-> from]
Broken == [st |-> "broken", by |-> NoWriter, from |-> "none"]

\* os.path.exists
Exists(f) == f.st # "none"

\* the writer's last byte and close; a file some later writer has truncated
\* meanwhile stays that writer's
EndWrite(f, w, from) == IF f = Partial(w) THEN Whole(from) ELSE f

NoSettings == [present |-> FALSE, update_duration_minutes |-> 0,
               friends_mode |-> FALSE, xkcd_mode |-> FALSE, m5_battery_percent |-> 0]

\* save_settings, lines 206-211: data, built from the globals
SavedSettings ==
    [present |-> TRUE,
     update_duration_minutes |-> update_duration_minutes,
     friends_mode |-> friends_mode,
     xkcd_mode |-> xkcd_mode,
     m5_battery_percent |-> m5_battery_percent]

\* lines 213-214: json.dump(data, f)
WriteSettings(data) == settings_file' = data

----------------------------------------------------------------------------
(* The Image Normalizer.  A decoded image is its mode, its size and the    *)
(* set of pixel values it shows, a pixel being a grey level l (0 black,    *)
(* 255 white) and an opacity a (0 transparent, 255 opaque).  A raster is   *)
(* what a PNG file holds: mode, size, palette (empty unless the mode is    *)
(* "P"), the levels shown on the rows the content covers, the level of the *)
(* rows it leaves uncovered, and the first row and number of rows the      *)
(* content covers.                                                         *)

MAX_WIDTH == 540
MAX_HEIGHT == 960

NoImage == [kind |-> "none"]
NoRaster == [mode |-> "none"]
ImageIdle == im_in = NoImage /\ im_out = NoRaster /\ im_by = "none"

Abs(x) == IF x < 0 THEN 0 - x ELSE x
Min(S) == CHOOSE x \in S : \A y \in S : x <= y
Max(S) == CHOOSE x \in S : \A y \in S : x >= y
RECURSIVE Pow2(_)
Pow2(n) == IF n = 0 THEN 1 ELSE 2 * Pow2(n - 1)

\* Doubles (IEEE 754 binary64, 53 significant bits), as far as lines 334-335
\* use them.  Normalised brings n/d into [1, 2) and counts the binary
\* exponent; QuotientBits is the long division giving `bits` further bits
\* of the quotient after the leading one, with the remainder left.
RECURSIVE Normalised(_, _, _)
Normalised(n, d, exp) ==
    IF n >= 2 * d THEN Normalised(n, 2 * d, exp + 1)
    ELSE IF n < d THEN Normalised(2 * n, d, exp - 1)
    ELSE [n |-> n, d |-> d, exp |-> exp]

RECURSIVE QuotientBits(_, _, _, _)
QuotientBits(rem, d, last, bits) ==
    IF bits = 0 THEN [rem |-> rem, last |-> last]
    ELSE IF 2 * rem >= d THEN QuotientBits(2 * rem - d, d, 1, bits - 1)
    ELSE QuotientBits(2 * rem, d, 0, bits - 1)

\* scale = 540.0 / orig_w (line 334): the quotient rounded to 53 bits, ties
\* to even.  The double is 540/orig_w + err * 2^(exp - 52) / d.
scale(orig_w) ==
    LET q == Normalised(MAX_WIDTH, orig_w, 0)
        b == QuotientBits(q.n - q.d, q.d, 1, 52)
        up == 2 * b.rem > q.d \/ (2 * b.rem = q.d /\ b.last = 1)
    IN  [exp |-> q.exp, d |-> q.d, err |-> IF up THEN q.d - b.rem ELSE 0 - b.rem]

\* new_h = int(round(orig_h * scale)) (line 335).  The product is rounded
\* to a double, then round() takes the nearest integer, ties to even.  When
\* 540 * orig_h / orig_w lies exactly between two integers, the error of
\* scale decides: if it exceeds half a unit in the last place of the
\* product (2 * orig_h * |err| > d * 2^(e - exp), e the product's exponent)
\* the product falls beside the middle and round() follows it.  Elsewhere
\* the error, below 2^-40 for these sizes, is too small to matter.
new_h_truncated(orig_w, orig_h) == (MAX_WIDTH * orig_h) \div orig_w
new_h(orig_w, orig_h) ==
    LET num == MAX_WIDTH * orig_h
        k == num \div orig_w
        s == scale(orig_w)
        e == Normalised(2 * k + 1, 2, 0).exp
        lhs == 2 * orig_h * Abs(s.err) * (IF s.exp > e THEN Pow2(s.exp - e) ELSE 1)
        rhs == s.d * (IF e >= s.exp THEN Pow2(e - s.exp) ELSE 1)
    IN  IF 2 * (num - k * orig_w) = orig_w
        THEN IF lhs > rhs THEN (IF s.err > 0 THEN k + 1 ELSE k)
             ELSE (IF k % 2 = 0 THEN k ELSE k + 1)
        ELSE IF 2 * (num - k * orig_w) < orig_w THEN k ELSE k + 1

\* y_offset (lines 358, 525)
y_offset(h) == IF h < MAX_HEIGHT THEN (MAX_HEIGHT - h) \div 2 ELSE 0

\* 'A' in img.mode (line 318)
HasAlpha(img) == img.mode \in {"RGBA", "LA"}

\* lines 321-325: the image pasted on a white background through its alpha
\* channel
Flatten(img) ==
    [img EXCEPT !.mode = "RGB",
                !.px = {[l |-> (p.l * p.a + 255 * (255 - p.a)) \div 255,
                         a |-> 255] : p \in img.px}]

\* img.transpose(Image.ROTATE_90) when w > h (lines 329-331, 505-506)
Portrait_kept(img) == img
Portrait(img) ==
    IF img.size[1] > img.size[2]
    THEN [img EXCEPT !.size = <<img.size[2], img.size[1]>>]
    ELSE img

\* img.resize((540, new_h)) (lines 336, 511): resampling gives a pixel
\* between two regions a value between theirs
resize(img, size) ==
    [img EXCEPT !.size = size,
                !.px = {[l |-> (p.l + q.l) \div 2, a |-> (p.a + q.a) \div 2] :
                        p \in img.px, q \in img.px}]

\* img.convert("L") (lines 339, 512): the grey level of each pixel; an
\* alpha channel is dropped
convert_L(img) ==
    [img EXCEPT !.mode = "L", !.px = {[l |-> p.l, a |-> 255] : p \in img.px}]

\* img.quantize(colors=16, dither=Dither.NONE) (lines 342, 512), median cut
\* on grey levels: the levels present are split into at most `colors` runs
\* of consecutive levels, each run shown as one palette entry; a level of
\* an image with no more than `colors` levels keeps its own entry
Levels(img) == {p.l : p \in img.px}
Box(S, g, colors) ==
    LET rank == Cardinality({x \in S : x < g})
    IN  IF Cardinality(S) <= colors THEN rank
        ELSE (rank * colors) \div Cardinality(S)
Entry(S, g, colors) ==
    LET box == {x \in S : Box(S, x, colors) = Box(S, g, colors)}
    IN  (Min(box) + Max(box)) \div 2
quantize(img, colors) ==
    [mode |-> "P", size |-> img.size,
     palette |-> {Entry(Levels(img), g, colors) : g \in Levels(img)}]

\* lines 345-361 and 514-528: the canvas with the palette of the content,
\* filled with the entry nearest to white, the content pasted at
\* (0, y_offset) and cut at the canvas's last row
Canvas(img) ==
    LET top == y_offset(img.size[2])
        rows == IF top + img.size[2] > MAX_HEIGHT THEN MAX_HEIGHT - top
                ELSE img.size[2]
    IN  [mode |-> "P", size |-> <<MAX_WIDTH, MAX_HEIGHT>>,
         palette |-> img.palette,
         content |-> img.palette,
         background |-> IF rows < MAX_HEIGHT THEN {Max(img.palette)} ELSE {},
         top |-> top, rows |-> rows]

\* lines 327-361 and 503-528, the steps the two functions share
Normalize(img0) ==
    LET img == Portrait(img0)
    IN  Canvas(quantize(convert_L(resize(img,
                   <<MAX_WIDTH, new_h(img.size[1], img.size[2])>>)), 16))

\* process_photo (lines 310-366)
process_photo(img) == Normalize(IF HasAlpha(img) THEN Flatten(img) ELSE img)

\* pre_process_photo (lines 500-533)
pre_process_photo(img) == Normalize(img)

\* process_friends_quote (lines 446-489): a white 960 x 540 "L" image, the
\* text drawn in black with the levels `ink` the font's rendering gives its
\* edges, turned by 90 degrees and saved as it is
process_friends_quote(quote) ==
    LET img_width == 960
        img_height == 540
    IN  [mode |-> "L", size |-> <<img_height, img_width>>, palette |-> {},
         content |-> {255} \cup quote.ink, background |-> {},
         top |-> 0, rows |-> img_width]

----------------------------------------------------------------------------
(* Locals of a connection's handler: the base command; the sleep duration  *)
(* computed for the poll; the reply sent and how many were sent.           *)

NoWsLoc == [base |-> "none", dur |-> 0, reply_kind |-> "none", reply_dur |-> 0,
            replies |-> 0, data |-> NoSettings]

\* the pcs at which a connection's coroutine occupies the socket thread's
\* event loop (everything between two awaits)
WsRunningPcs == {"save", "save_w", "dispatch", "xkcd", "ready", "copy",
                 "copy_w", "clear", "slow", "slow_w", "reply"}
LoopFree == \A c \in Conns : ws_pc[c] \notin WsRunningPcs

PushHist(h, cmd) == <<h[2], cmd>>

----------------------------------------------------------------------------
(* Startup: module globals at their defaults (lines 59-82), then           *)
(* load_settings (lines 188-203) over whatever settings.json holds.        *)

\* data.get(field, default) of the loaded record; the default when there is
\* no file
Loaded(file, field, default) == IF file.present THEN file[field] ELSE default

Startup ==
    /\ update_duration_minutes' = Loaded(settings_file, "update_duration_minutes", 30)
    /\ friends_mode' = Loaded(settings_file, "friends_mode", FALSE)
    /\ xkcd_mode' = Loaded(settings_file, "xkcd_mode", FALSE)
    /\ m5_battery_percent' = Loaded(settings_file, "m5_battery_percent", 0)
    /\ preloaded_xkcd_image_ready' = FALSE
    /\ chat_pc' = "idle"
    /\ chat_data' = NoSettings
    /\ ws_pc' = [c \in Conns |-> "closed"]
    /\ ws_loc' = [c \in Conns |-> NoWsLoc]
    /\ refills' = [i \in RefillSlots |-> "none"]
    /\ mode_hist' = <<"none", "none">>
    /\ slot_fresh' = FALSE
    /\ last_refill' = "none"

\* the first start: no settings.json, no image.png, no xkcd_next.png
MainInit ==
    /\ update_duration_minutes = 30
    /\ friends_mode = FALSE
    /\ xkcd_mode = FALSE
    /\ m5_battery_percent = 0
    /\ preloaded_xkcd_image_ready = FALSE
    /\ settings_file = NoSettings
    /\ image_file = NoFile
    /\ preloaded_file = NoFile
    /\ chat_pc = "idle"
    /\ chat_data = NoSettings
    /\ ws_pc = [c \in Conns |-> "closed"]
    /\ ws_loc = [c \in Conns |-> NoWsLoc]
    /\ refills = [i \in RefillSlots |-> "none"]
    /\ n_events = 0
    /\ n_restarts = 0
    /\ mode_hist = <<"none", "none">>
    /\ ever_produced = FALSE
    /\ slot_fresh = FALSE
    /\ last_refill = "none"

Init ==
    /\ MainInit
    /\ sl_now = DateTime(0, 0, 0, 0)
    /\ sl_cfg = 0
    /\ sl_result = 0
    /\ sl_pc = "idle"
    /\ tm_msg = NoMessage
    /\ http_reply = "none"
    /\ ImageIdle
    /\ chat_from = 432856100

\* the process is killed and started again: the files stay, the rest is lost
Restart ==
    /\ n_restarts < MaxRestarts
    /\ n_restarts' = n_restarts + 1
    /\ n_events < MaxEvents
    /\ n_events' = n_events + 1
    /\ Startup
    /\ UNCHANGED <<other_vars, file_vars, ever_produced>>

----------------------------------------------------------------------------
(* Image producers.  Each writes its output file in place: the file is     *)
(* truncated when the write begins and complete when it ends.  A producer  *)
(* fails (decode error, empty corpus, network error) before it opens its   *)
(* output file.                                                            *)

\* final_img.save(IMAGE_FILE, ...): lines 361, 489, 528 (from line 580)
BeginImage(w) == image_file' = Partial(w)

EndImage(w, from) ==
    /\ image_file' = EndWrite(image_file, w, from)
    /\ ever_produced' = TRUE

\* the except branches and early returns of the producers of image.png
\* (lines 364-365, 416-417, 428-436, 492-494, 531-533, 581-583): nothing
\* has been written (and, for comparison, a producer that has opened its
\* output before it fails)
FailImage_opened == image_file' = Broken

FailImage == UNCHANGED image_file

\* final_img.save(PRELOADED_XKCD_FILE, ...): line 528 (from line 553)
BeginPreload(w) == preloaded_file' = Partial(w)

EndPreload(w) == preloaded_file' = EndWrite(preloaded_file, w, "comic")

\* line 554
SetReady == preloaded_xkcd_image_ready' = TRUE

\* lines 728, 772
ClearReady == preloaded_xkcd_image_ready' = FALSE

\* shutil.copyfile(PRELOADED_XKCD_FILE, IMAGE_FILE), lines 726, 770: both
\* files are opened, image.png truncated ...
BeginCopy(w) == image_file' = Partial(w)

\* ... and the bytes xkcd_next.png holds are copied
CopyOf(src) == IF src.st = "whole" THEN Whole("slot") ELSE Broken

FinishCopy(w) ==
    /\ image_file' = IF image_file = Partial(w) THEN CopyOf(preloaded_file)
                     ELSE image_file
    /\ ever_produced' = TRUE

\* loop.run_in_executor(None, preload_xkcd_comic), not awaited: lines 729, 773
FreeSlots == {i \in RefillSlots : refills[i] = "none"}
LowestFree == CHOOSE i \in FreeSlots : \A j \in FreeSlots : i <= j

\* (and, for comparison, a take that clears the flag and submits nothing)
SubmitRefill_dropped == UNCHANGED refills

SubmitRefill ==
    /\ FreeSlots # {}
    /\ refills' = [refills EXCEPT ![LowestFree] = "fetch"]

----------------------------------------------------------------------------
(* The chat thread: handlers of updates from an allowed chat, one at a     *)
(* time (lines 623-734).                                                   *)

\* an update arrives and its handler starts
ChatStart(pc) ==
    /\ chat_pc = "idle"
    /\ n_events < MaxEvents
    /\ n_events' = n_events + 1
    /\ chat_pc' = pc

ChatStep(from, to) ==
    /\ chat_pc = from
    /\ chat_pc' = to
    /\ UNCHANGED n_events

\* the handler returns
ChatReturn(from, cmd) ==
    /\ chat_pc = from
    /\ chat_pc' = "idle"
    /\ mode_hist' = IF cmd = "none" THEN mode_hist ELSE PushHist(mode_hist, cmd)
    /\ UNCHANGED n_events

\* save_settings on the chat thread (lines 205-217): data is built from the
\* globals (lines 206-211), then written to settings.json (lines 213-214)
save_settings(pc, pc_w, next) ==
    \/ /\ ChatStep(pc, pc_w)
       /\ chat_data' = SavedSettings
       /\ UNCHANGED <<other_vars, global_vars, file_vars, ws_vars, refills,
                      n_restarts, hist_vars>>
    \/ /\ ChatStep(pc_w, next)
       /\ WriteSettings(chat_data)
       /\ chat_data' = NoSettings
       /\ UNCHANGED <<other_vars, global_vars, image_file, preloaded_file,
                      ws_vars, refills, n_restarts, hist_vars>>

\* line 702 (and, for comparison, the assignment with the wrong value)
FriendsSetFlag_typo == friends_mode' = FALSE

FriendsSetFlag == friends_mode' = TRUE

\* friends_command, lines 699-710
friends_command ==
    \/ /\ ChatStart("f2")
       /\ FriendsSetFlag
       /\ UNCHANGED <<other_vars, chat_data, xkcd_mode,
                      update_duration_minutes, m5_battery_percent,
                      preloaded_xkcd_image_ready, file_vars, ws_vars, refills,
                      n_restarts, hist_vars>>
    \/ /\ ChatStep("f2", "f_save")
       /\ xkcd_mode' = FALSE
       /\ UNCHANGED <<other_vars, chat_data, friends_mode,
                      update_duration_minutes, m5_battery_percent,
                      preloaded_xkcd_image_ready, file_vars, ws_vars, refills,
                      n_restarts, hist_vars>>
    \/ save_settings("f_save", "f_save_w", "f_quote")
    \* process_friends_quote in the executor, awaited: it fails ...
    \/ /\ ChatReturn("f_quote", "friends")
       /\ FailImage
       /\ UNCHANGED <<other_vars, chat_data, global_vars, settings_file,
                      preloaded_file, ws_vars, refills, n_restarts,
                      ever_produced, slot_fresh, last_refill>>
    \* ... or opens image.png ...
    \/ /\ ChatStep("f_quote", "f_quote_w")
       /\ BeginImage(ChatWriter)
       /\ UNCHANGED <<other_vars, chat_data, global_vars, settings_file,
                      preloaded_file, ws_vars, refills, n_restarts, hist_vars>>
    \* ... and finishes writing it
    \/ /\ ChatReturn("f_quote_w", "friends")
       /\ EndImage(ChatWriter, "quote")
       /\ UNCHANGED <<other_vars, chat_data, global_vars, settings_file,
                      preloaded_file, ws_vars, refills, n_restarts,
                      slot_fresh, last_refill>>

\* xkcd_command, lines 712-734
xkcd_command ==
    \/ /\ ChatStart("x2")
       /\ xkcd_mode' = TRUE
       /\ UNCHANGED <<other_vars, chat_data, friends_mode,
                      update_duration_minutes, m5_battery_percent,
                      preloaded_xkcd_image_ready, file_vars, ws_vars, refills,
                      n_restarts, hist_vars>>
    \/ /\ ChatStep("x2", "x_save")
       /\ friends_mode' = FALSE
       /\ UNCHANGED <<other_vars, chat_data, xkcd_mode,
                      update_duration_minutes, m5_battery_percent,
                      preloaded_xkcd_image_ready, file_vars, ws_vars, refills,
                      n_restarts, hist_vars>>
    \/ save_settings("x_save", "x_save_w", "x_check")
    \* line 719: if not preloaded_xkcd_image_ready
    \/ /\ ChatStep("x_check", IF preloaded_xkcd_image_ready THEN "x_copy"
                                                            ELSE "x_preload")
       /\ UNCHANGED <<other_vars, chat_data, global_vars, file_vars, ws_vars,
                      refills, n_restarts, hist_vars>>
    \* line 720: preload_xkcd_comic in the executor, awaited: it fails and
    \* the handler returns ...
    \/ /\ ChatReturn("x_preload", "xkcd")
       /\ last_refill' = "failed"
       /\ UNCHANGED <<other_vars, chat_data, global_vars, file_vars, ws_vars,
                      refills, n_restarts, ever_produced, slot_fresh>>
    \* ... or opens xkcd_next.png ...
    \/ /\ ChatStep("x_preload", "x_preload_w")
       /\ BeginPreload(ChatWriter)
       /\ UNCHANGED <<other_vars, chat_data, global_vars, settings_file,
                      image_file, ws_vars, refills, n_restarts, hist_vars>>
    \* ... finishes writing it ...
    \/ /\ ChatStep("x_preload_w", "x_preload_flag")
       /\ EndPreload(ChatWriter)
       /\ UNCHANGED <<other_vars, chat_data, global_vars, settings_file,
                      image_file, ws_vars, refills, n_restarts, hist_vars>>
    \* ... and sets the flag (line 554)
    \/ /\ ChatStep("x_preload_flag", "x_copy")
       /\ SetReady
       /\ slot_fresh' = TRUE
       /\ last_refill' = "ok"
       /\ UNCHANGED <<other_vars, chat_data, mode_vars,
                      update_duration_minutes, m5_battery_percent, file_vars,
                      ws_vars, refills, n_restarts, mode_hist, ever_produced>>
    \* line 726: shutil.copyfile opens both files ...
    \/ /\ ChatStep("x_copy", "x_copy_w")
       /\ BeginCopy(ChatWriter)
       /\ slot_fresh' = FALSE
       /\ UNCHANGED <<other_vars, chat_data, global_vars, settings_file,
                      preloaded_file, ws_vars, refills, n_restarts, mode_hist,
                      ever_produced, last_refill>>
    \* ... and has copied
    \/ /\ ChatStep("x_copy_w", "x_clear")
       /\ FinishCopy(ChatWriter)
       /\ UNCHANGED <<other_vars, chat_data, global_vars, settings_file,
                      preloaded_file, ws_vars, refills, n_restarts, mode_hist,
                      slot_fresh, last_refill>>
    \* lines 728-729: clear the flag, submit a refill; the handler returns
    \/ /\ ChatReturn("x_clear", "xkcd")
       /\ ClearReady
       /\ SubmitRefill
       /\ UNCHANGED <<other_vars, chat_data, mode_vars,
                      update_duration_minutes, m5_battery_percent, file_vars,
                      ws_vars, n_restarts, ever_produced, slot_fresh,
                      last_refill>>

\* lines 626, 644 (and, for comparison, a handler that leaves the flag as
\* it is)
SubmitClearFriends_kept == UNCHANGED friends_mode

SubmitClearFriends == friends_mode' = FALSE

\* photo_handler (lines 623-639) and text_handler (lines 641-651): the mode
\* becomes Normal, then process_photo runs (for a text, on what the browser
\* rendered)
submit_image(p2, p_save, p_save_w, p_photo, p_photo_w) ==
    \/ /\ ChatStart(p2)
       /\ SubmitClearFriends
       /\ UNCHANGED <<other_vars, chat_data, xkcd_mode,
                      update_duration_minutes, m5_battery_percent,
                      preloaded_xkcd_image_ready, file_vars, ws_vars, refills,
                      n_restarts, hist_vars>>
    \/ /\ ChatStep(p2, p_save)
       /\ xkcd_mode' = FALSE
       /\ UNCHANGED <<other_vars, chat_data, friends_mode,
                      update_duration_minutes, m5_battery_percent,
                      preloaded_xkcd_image_ready, file_vars, ws_vars, refills,
                      n_restarts, hist_vars>>
    \/ save_settings(p_save, p_save_w, p_photo)
    \* process_photo fails (undecodable bytes; no bytes rendered) ...
    \/ /\ ChatReturn(p_photo, "normal")
       /\ FailImage
       /\ UNCHANGED <<other_vars, chat_data, global_vars, settings_file,
                      preloaded_file, ws_vars, refills, n_restarts,
                      ever_produced, slot_fresh, last_refill>>
    \* ... or opens image.png ...
    \/ /\ ChatStep(p_photo, p_photo_w)
       /\ BeginImage(ChatWriter)
       /\ UNCHANGED <<other_vars, chat_data, global_vars, settings_file,
                      preloaded_file, ws_vars, refills, n_restarts, hist_vars>>
    \* ... and finishes writing it
    \/ /\ ChatReturn(p_photo_w, "normal")
       /\ EndImage(ChatWriter, "photo")
       /\ UNCHANGED <<other_vars, chat_data, global_vars, settings_file,
                      preloaded_file, ws_vars, refills, n_restarts,
                      slot_fresh, last_refill>>

photo_handler == submit_image("p2", "p_save", "p_save_w", "p_photo", "p_photo_w")
text_handler == submit_image("t2", "t_save", "t_save_w", "t_photo", "t_photo_w")

\* duration_callback(data), lines 672-697: a payload that names a duration
\* and parses is stored and saved (lines 679-681); any other payload only
\* edits the chat message (lines 685, 687-697)
duration_callback(data) ==
    \/ /\ startswith_duration(data)
       /\ IsIntLiteral(data[2])
       /\ ChatStart("d_save")
       /\ update_duration_minutes' = int(data[2])
       /\ UNCHANGED <<other_vars, chat_data, mode_vars, m5_battery_percent,
                      preloaded_xkcd_image_ready, file_vars, ws_vars, refills,
                      n_restarts, hist_vars>>
    \/ /\ ~(startswith_duration(data) /\ IsIntLiteral(data[2]))
       /\ ChatStart("idle")
       /\ UNCHANGED <<other_vars, chat_data, global_vars, file_vars, ws_vars,
                      refills, n_restarts, hist_vars>>
    \/ save_settings("d_save", "d_save_w", "idle")

----------------------------------------------------------------------------
(* Fire-and-forget refills: preload_xkcd_comic in an executor thread       *)
(* (lines 535-561).                                                        *)

refill(i) ==
    \* the fetch fails, or there is no image URL: return False
    \/ /\ refills[i] = "fetch"
       /\ refills' = [refills EXCEPT ![i] = "none"]
       /\ last_refill' = "failed"
       /\ UNCHANGED <<other_vars, global_vars, file_vars, chat_vars, ws_vars,
                      budget_vars, mode_hist, ever_produced, slot_fresh>>
    \* pre_process_photo opens xkcd_next.png ...
    \/ /\ refills[i] = "fetch"
       /\ BeginPreload(RefillWriter(i))
       /\ refills' = [refills EXCEPT ![i] = "write"]
       /\ UNCHANGED <<other_vars, global_vars, settings_file, image_file,
                      chat_vars, ws_vars, budget_vars, hist_vars>>
    \* ... finishes writing it and returns True ...
    \/ /\ refills[i] = "write"
       /\ EndPreload(RefillWriter(i))
       /\ refills' = [refills EXCEPT ![i] = "flag"]
       /\ UNCHANGED <<other_vars, global_vars, settings_file, image_file,
                      chat_vars, ws_vars, budget_vars, hist_vars>>
    \* ... and the flag is set (line 554)
    \/ /\ refills[i] = "flag"
       /\ SetReady
       /\ slot_fresh' = TRUE
       /\ refills' = [refills EXCEPT ![i] = "none"]
       /\ last_refill' = "ok"
       /\ UNCHANGED <<other_vars, mode_vars, update_duration_minutes,
                      m5_battery_percent, file_vars, chat_vars, ws_vars,
                      budget_vars, mode_hist, ever_produced>>

----------------------------------------------------------------------------
(* The socket thread: ws_handler, one coroutine per connection (lines      *)
(* 739-787).                                                               *)

WsGoto(c, pc) == ws_pc' = [ws_pc EXCEPT ![c] = pc] /\ UNCHANGED ws_loc

\* lines 745-756: battery_val, None unless a battery field parses as an int
\* (and, for comparison, a parse that takes a malformed field for 0)
ParseBattery_lenient(field) ==
    IF field.kind = "absent" THEN [some |-> FALSE, val |-> 0]
    ELSE [some |-> TRUE, val |-> field.val]

ParseBattery(field) ==
    IF field.kind = "int" THEN [some |-> TRUE, val |-> field.val]
    ELSE [some |-> FALSE, val |-> 0]

\* line 761: what follows the telemetry (and, for comparison, a handler
\* without the test of the base command)
AfterTelemetry_always(base) == "dispatch"

AfterTelemetry(base) == IF base = "checkForImage" THEN "dispatch" ELSE "idle"

\* lines 764, 766: the branch on the two mode flags, read one after the
\* other (and, for comparison, a comic branch that ignores xkcd_mode)
FriendsBranch(fm) == IF fm THEN "quote" ELSE "xkcd"

XkcdBranch_always(xm) == "ready"

XkcdBranch(xm) == IF xm THEN "ready" ELSE "reply"

\* line 767
ReadyBranch(ready) == IF ready THEN "copy" ELSE "slow"

\* lines 779-783
ReplyKind(f) == IF Exists(f) THEN "update" ELSE "no_update"

\* lines 763, 781, 783: the duration field of the reply is the one computed
\* at line 762 (and, for comparison, a reply built from the configured
\* interval)
ReplyDuration_stale(dur, configured) == configured

ReplyDuration(dur, configured) == dur

ws_connect(c) ==
    /\ ws_pc[c] = "closed"
    /\ WsGoto(c, "idle")
    /\ UNCHANGED <<other_vars, global_vars, file_vars, chat_vars, refills,
                   budget_vars, hist_vars>>

\* the device disconnects while the handler awaits: ConnectionClosed ends
\* the handler (line 786)
ws_disconnect(c) ==
    /\ ws_pc[c] \in {"idle", "quote", "quote_w", "quote_done"}
    /\ ws_pc' = [ws_pc EXCEPT ![c] = "closed"]
    /\ ws_loc' = [ws_loc EXCEPT ![c] = NoWsLoc]
    /\ UNCHANGED <<other_vars, global_vars, file_vars, chat_vars, refills,
                   budget_vars, hist_vars>>

\* lines 743-758: a message arrives; the battery value it carries is stored
ws_receive_msg(c, message) ==
    /\ ws_pc[c] = "idle"
    /\ LoopFree
    /\ n_events < MaxEvents
    /\ n_events' = n_events + 1
    /\ LET battery_val == ParseBattery(message.battery) IN
         IF battery_val.some
         THEN /\ m5_battery_percent' = battery_val.val
              /\ ws_pc' = [ws_pc EXCEPT ![c] = "save"]
              /\ ws_loc' = [ws_loc EXCEPT ![c] =
                              [NoWsLoc EXCEPT !.base = message.base]]
         ELSE /\ UNCHANGED m5_battery_percent
              /\ ws_pc' = [ws_pc EXCEPT ![c] = AfterTelemetry(message.base)]
              /\ ws_loc' = [ws_loc EXCEPT ![c] =
                              IF AfterTelemetry(message.base) = "idle" THEN NoWsLoc
                              ELSE [NoWsLoc EXCEPT !.base = message.base]]
    /\ UNCHANGED <<other_vars, mode_vars, update_duration_minutes,
                   preloaded_xkcd_image_ready, file_vars, chat_vars, refills,
                   n_restarts, hist_vars>>

ws_receive(c) == \E message \in Messages : ws_receive_msg(c, message)

\* line 760: save_settings on the socket thread: data is built from the
\* globals (lines 206-211), then written to settings.json (lines 213-214)
ws_save(c) ==
    \/ /\ ws_pc[c] = "save"
       /\ ws_pc' = [ws_pc EXCEPT ![c] = "save_w"]
       /\ ws_loc' = [ws_loc EXCEPT ![c].data = SavedSettings]
       /\ UNCHANGED <<other_vars, global_vars, file_vars, chat_vars, refills,
                      budget_vars, hist_vars>>
    \/ /\ ws_pc[c] = "save_w"
       /\ WriteSettings(ws_loc[c].data)
       /\ ws_pc' = [ws_pc EXCEPT ![c] = AfterTelemetry(ws_loc[c].base)]
       /\ ws_loc' = [ws_loc EXCEPT ![c] =
                       IF AfterTelemetry(ws_loc[c].base) = "idle" THEN NoWsLoc
                       ELSE [@ EXCEPT !.data = NoSettings]]
       /\ UNCHANGED <<other_vars, global_vars, image_file, preloaded_file,
                      chat_vars, refills, budget_vars, hist_vars>>

\* lines 762-764: the sleep duration of this poll, then "if friends_mode"
ws_dispatch(c) ==
    /\ ws_pc[c] = "dispatch"
    /\ \E now \in NowSamples :
         ws_loc' = [ws_loc EXCEPT ![c].dur =
                      get_next_sleep_duration_minutes(now, update_duration_minutes)]
    /\ ws_pc' = [ws_pc EXCEPT ![c] = FriendsBranch(friends_mode)]
    /\ UNCHANGED <<other_vars, global_vars, file_vars, chat_vars, refills,
                   budget_vars, hist_vars>>

\* line 765: process_friends_quote in the executor, awaited; the loop is free
ws_quote(c) ==
    \/ /\ ws_pc[c] = "quote"
       /\ WsGoto(c, "quote_done")
       /\ FailImage
       /\ UNCHANGED <<other_vars, global_vars, settings_file, preloaded_file,
                      chat_vars, refills, budget_vars, hist_vars>>
    \/ /\ ws_pc[c] = "quote"
       /\ BeginImage(WsWriter(c))
       /\ WsGoto(c, "quote_w")
       /\ UNCHANGED <<other_vars, global_vars, settings_file, preloaded_file,
                      chat_vars, refills, budget_vars, hist_vars>>
    \/ /\ ws_pc[c] = "quote_w"
       /\ EndImage(WsWriter(c), "quote")
       /\ WsGoto(c, "quote_done")
       /\ UNCHANGED <<other_vars, global_vars, settings_file, preloaded_file,
                      chat_vars, refills, budget_vars, mode_hist, slot_fresh,
                      last_refill>>

\* line 766: "elif xkcd_mode"
ws_read_xkcd(c) ==
    /\ ws_pc[c] = "xkcd"
    /\ WsGoto(c, XkcdBranch(xkcd_mode))
    /\ UNCHANGED <<other_vars, global_vars, file_vars, chat_vars, refills,
                   budget_vars, hist_vars>>

\* lines 767-773: the prefetched comic is taken
ws_take(c) ==
    \/ /\ ws_pc[c] = "ready"
       /\ WsGoto(c, ReadyBranch(preloaded_xkcd_image_ready))
       /\ UNCHANGED <<other_vars, global_vars, file_vars, chat_vars, refills,
                      budget_vars, hist_vars>>
    \/ /\ ws_pc[c] = "copy"
       /\ BeginCopy(WsWriter(c))
       /\ slot_fresh' = FALSE
       /\ WsGoto(c, "copy_w")
       /\ UNCHANGED <<other_vars, global_vars, settings_file, preloaded_file,
                      chat_vars, refills, budget_vars, mode_hist,
                      ever_produced, last_refill>>
    \/ /\ ws_pc[c] = "copy_w"
       /\ FinishCopy(WsWriter(c))
       /\ WsGoto(c, "clear")
       /\ UNCHANGED <<other_vars, global_vars, settings_file, preloaded_file,
                      chat_vars, refills, budget_vars, mode_hist, slot_fresh,
                      last_refill>>
    \/ /\ ws_pc[c] = "clear"
       /\ ClearReady
       /\ SubmitRefill
       /\ WsGoto(c, "reply")
       /\ UNCHANGED <<other_vars, mode_vars, update_duration_minutes,
                      m5_battery_percent, file_vars, chat_vars, budget_vars,
                      hist_vars>>

\* lines 776, 778: process_xkcd_comic, called on the event loop itself
ws_slow(c) ==
    \/ /\ ws_pc[c] = "slow"
       /\ WsGoto(c, "reply")
       /\ FailImage
       /\ UNCHANGED <<other_vars, global_vars, settings_file, preloaded_file,
                      chat_vars, refills, budget_vars, hist_vars>>
    \/ /\ ws_pc[c] = "slow"
       /\ BeginImage(WsWriter(c))
       /\ WsGoto(c, "slow_w")
       /\ UNCHANGED <<other_vars, global_vars, settings_file, preloaded_file,
                      chat_vars, refills, budget_vars, hist_vars>>
    \/ /\ ws_pc[c] = "slow_w"
       /\ EndImage(WsWriter(c), "comic")
       /\ WsGoto(c, "reply")
       /\ UNCHANGED <<other_vars, global_vars, settings_file, preloaded_file,
                      chat_vars, refills, budget_vars, mode_hist, slot_fresh,
                      last_refill>>

\* lines 779-784: the reply is built and handed to the socket
ws_reply(c) ==
    /\ \/ ws_pc[c] = "reply"
       \/ ws_pc[c] = "quote_done" /\ LoopFree
    /\ ws_pc' = [ws_pc EXCEPT ![c] = "sent"]
    /\ ws_loc' = [ws_loc EXCEPT ![c] =
                    [@ EXCEPT !.reply_kind = ReplyKind(image_file),
                              !.reply_dur = ReplyDuration(ws_loc[c].dur,
                                                          update_duration_minutes),
                              !.replies = @ + 1]]
    /\ UNCHANGED <<other_vars, global_vars, file_vars, chat_vars, refills,
                   budget_vars, hist_vars>>

\* the device is gone when the reply is sent: ConnectionClosed (line 786)
ws_reply_closed(c) ==
    /\ ws_pc[c] = "reply"
    /\ ws_pc' = [ws_pc EXCEPT ![c] = "closed"]
    /\ ws_loc' = [ws_loc EXCEPT ![c] = NoWsLoc]
    /\ UNCHANGED <<other_vars, global_vars, file_vars, chat_vars, refills,
                   budget_vars, hist_vars>>

\* line 785, and back to "async for message in websocket" (line 743)
ws_next(c) ==
    /\ ws_pc[c] = "sent"
    /\ ws_pc' = [ws_pc EXCEPT ![c] = "idle"]
    /\ ws_loc' = [ws_loc EXCEPT ![c] = NoWsLoc]
    /\ UNCHANGED <<other_vars, global_vars, file_vars, chat_vars, refills,
                   budget_vars, hist_vars>>

ws_handler(c) ==
    \/ ws_connect(c)
    \/ ws_disconnect(c)
    \/ ws_receive(c)
    \/ ws_save(c)
    \/ ws_dispatch(c)
    \/ ws_quote(c)
    \/ ws_read_xkcd(c)
    \/ ws_take(c)
    \/ ws_slow(c)
    \/ ws_reply(c)
    \/ ws_reply_closed(c)
    \/ ws_next(c)

----------------------------------------------------------------------------
Next ==
    \/ friends_command
    \/ xkcd_command
    \/ photo_handler
    \/ text_handler
    \/ \E data \in DurationChoices : duration_callback(data)
    \/ \E i \in RefillSlots : refill(i)
    \/ \E c \in DeviceConns : ws_handler(c)
    \/ Restart

----------------------------------------------------------------------------
(* Sleep Scheduler harness: every time of day the bounds give, every       *)
(* configured interval, one call.                                          *)

\* the seconds and microseconds tried within each minute of the day
SampleSeconds == {0, 1, 29, 30, 59}
SampleMicros == {0, 1, 500000, 999999}
SampleDurations == {1, 5, 30, 60, 120}

SleepInit ==
    /\ sl_now \in {DateTime(h, m, s, us) : h \in 0..23, m \in 0..59,
                                           s \in SampleSeconds, us \in SampleMicros}
    /\ sl_cfg \in SampleDurations
    /\ sl_result = 0
    /\ sl_pc = "call"
    /\ tm_msg = NoMessage
    /\ http_reply = "none"
    /\ ImageIdle
    /\ chat_from = 432856100
    /\ MainInit

SleepCall ==
    /\ sl_pc = "call"
    /\ sl_result' = get_next_sleep_duration_minutes(sl_now, sl_cfg)
    /\ sl_pc' = "done"
    /\ UNCHANGED <<sl_now, sl_cfg, tm_msg, http_reply, img_vars, chat_from,
                   main_vars>>

vars == <<main_vars, other_vars>>

SleepNext == SleepCall
SpecSleep == SleepInit /\ [][SleepNext]_vars

Spec == Init /\ [][Next]_vars

----------------------------------------------------------------------------
(* Two connections: websockets.serve (line 790) starts one ws_handler      *)
(* coroutine per connection, all on the socket thread's event loop.        *)

NextTwo ==
    \/ Next
    \/ \E c \in Conns \ DeviceConns : ws_handler(c)

SpecTwo == Init /\ [][NextTwo]_vars

----------------------------------------------------------------------------
(* The Image Origin Server: GET /image.png, handled on the socket thread's *)
(* event loop (lines 794-799, 801-808).  The device sends the request once *)
(* it has the update reply; the file is read as it is at that moment.      *)

\* lines 795-799: FileResponse(IMAGE_FILE) or 404
ImageResponse(f) == IF Exists(f) THEN f.st ELSE "404"

handle_image ==
    /\ LoopFree
    /\ n_events < MaxEvents
    /\ n_events' = n_events + 1
    /\ http_reply' = ImageResponse(image_file)
    /\ UNCHANGED <<sleep_vars, tm_msg, img_vars, chat_from, global_vars, file_vars,
                   chat_vars, ws_vars, refills, n_restarts, hist_vars>>

NextOrigin ==
    \/ Next
    \/ handle_image

SpecOrigin == Init /\ [][NextOrigin]_vars

----------------------------------------------------------------------------
(* Callback queries with any payload: query.data is whatever the client    *)
(* sent, the handler reads it at line 676 without comparing it to the      *)
(* keyboard.                                                               *)

NextCallback ==
    \/ Next
    \/ \E data \in OtherPayloads : duration_callback(data)

SpecCallback == Init /\ [][NextCallback]_vars

----------------------------------------------------------------------------
(* Updates from any chat.  The dispatcher hands each update to its         *)
(* handler; every handler that changes state is wrapped by `restricted`    *)
(* (lines 93-110), which runs it only for a chat of ALLOWED_CHAT_IDS and   *)
(* otherwise answers "Unauthorized" and returns.                           *)

ALLOWED_CHAT_IDS == {432856100, 1752631505}
\* the chats updates come from: one of the allowed ones and a stranger
ChatIds == {432856100, 7}

\* the next update is taken from the queue; chat_from is its chat
next_update ==
    /\ chat_pc = "idle"
    /\ n_events < MaxEvents
    /\ \E id \in ChatIds \ {chat_from} : chat_from' = id
    /\ UNCHANGED <<sleep_vars, tm_msg, http_reply, img_vars, main_vars>>

restricted_open(chat_id, func) == func
restricted(chat_id, func) ==
    IF chat_id \in ALLOWED_CHAT_IDS
    THEN func
    ELSE \/ /\ ChatStart("denied")
            /\ UNCHANGED <<other_vars, chat_data, global_vars, file_vars,
                           ws_vars, refills, n_restarts, hist_vars>>
         \/ /\ ChatStep("denied", "idle")
            /\ UNCHANGED <<other_vars, chat_data, global_vars, file_vars,
                           ws_vars, refills, n_restarts, hist_vars>>

ChatsInit ==
    /\ MainInit
    /\ sl_now = DateTime(0, 0, 0, 0)
    /\ sl_cfg = 0
    /\ sl_result = 0
    /\ sl_pc = "idle"
    /\ tm_msg = NoMessage
    /\ http_reply = "none"
    /\ ImageIdle
    /\ chat_from \in ChatIds

NextChats ==
    \/ next_update
    \/ restricted(chat_from, friends_command)
    \/ restricted(chat_from, xkcd_command)
    \/ restricted(chat_from, photo_handler)
    \/ restricted(chat_from, text_handler)
    \/ \E data \in DurationChoices : restricted(chat_from, duration_callback(data))
    \/ \E i \in RefillSlots : refill(i)
    \/ \E c \in DeviceConns : ws_handler(c)

SpecChats == ChatsInit /\ [][NextChats]_vars

----------------------------------------------------------------------------
(* Telemetry harness: one connection, one message, from every combination  *)
(* of mode, stored battery value, prefetch slot and image the server can   *)
(* be in when the message arrives; settings.json holds what is in memory.  *)

StoredBatteries == {0, 80}

TelemetryInit ==
    /\ tm_msg \in Messages
    /\ friends_mode \in BOOLEAN
    /\ xkcd_mode \in BOOLEAN
    /\ ~(friends_mode /\ xkcd_mode)
    /\ update_duration_minutes = 30
    /\ m5_battery_percent \in StoredBatteries
    /\ preloaded_xkcd_image_ready \in BOOLEAN
    /\ preloaded_file = IF preloaded_xkcd_image_ready THEN Whole("comic")
                                                      ELSE NoFile
    /\ settings_file = SavedSettings
    /\ image_file \in {NoFile, Whole("photo")}
    /\ chat_pc = "idle"
    /\ chat_data = NoSettings
    /\ ws_pc = [c \in Conns |-> IF c = 1 THEN "idle" ELSE "closed"]
    /\ ws_loc = [c \in Conns |-> NoWsLoc]
    /\ refills = [i \in RefillSlots |-> "none"]
    /\ n_events = 0
    /\ n_restarts = 0
    /\ mode_hist = <<"none", "none">>
    /\ ever_produced = Exists(image_file)
    /\ slot_fresh = preloaded_xkcd_image_ready
    /\ last_refill = IF preloaded_xkcd_image_ready THEN "ok" ELSE "none"
    /\ sl_now = DateTime(0, 0, 0, 0)
    /\ sl_cfg = 0
    /\ sl_result = 0
    /\ sl_pc = "idle"
    /\ http_reply = "none"
    /\ ImageIdle
    /\ chat_from = 432856100

\* the device sends tm_msg, once
TelemetryReceive == n_events = 0 /\ ws_receive_msg(1, tm_msg)

TelemetryNext ==
    \/ TelemetryReceive
    \/ ws_save(1)
    \/ ws_dispatch(1)
    \/ ws_quote(1)
    \/ ws_read_xkcd(1)
    \/ ws_take(1)
    \/ ws_slow(1)
    \/ ws_reply(1)

SpecTelemetry == TelemetryInit /\ [][TelemetryNext]_vars

----------------------------------------------------------------------------
(* Image Normalizer harness: one input, one run of one of the functions    *)
(* that write a raster.  The sizes are every width and height up to        *)
(* MaxDim and two larger sizes whose scaled height lies exactly between    *)
(* two integers; the contents are a photo of many grey levels, a black and *)
(* white drawing, and black text on a transparent background as the text   *)
(* renderer produces it.                                                   *)

MaxDim == 12
TieSizes == {<<200, 335>>, <<248, 403>>}
ImageSizes == ((1..MaxDim) \X (1..MaxDim)) \cup TieSizes
Ramp == {15 * i : i \in 0..17}
ImageContents ==
    {[mode |-> "RGB", px |-> {[l |-> g, a |-> 255] : g \in Ramp}],
     [mode |-> "RGB", px |-> {[l |-> 0, a |-> 255], [l |-> 255, a |-> 255]}],
     [mode |-> "RGBA", px |-> {[l |-> 0, a |-> 0], [l |-> 0, a |-> 255]}]}
\* an image has at least as many pixels as it shows values
Images ==
    UNION {{[kind |-> "image", mode |-> c.mode, size |-> sz, px |-> c.px] :
               sz \in {z \in ImageSizes : z[1] * z[2] >= Cardinality(c.px)}} :
           c \in ImageContents}
\* the levels a quote's text is drawn with: the default bitmap font gives
\* black alone, a TrueType font the levels of its smoothed edges too
Quotes == {[kind |-> "quote", ink |-> i] : i \in {{0}, Ramp \ {255}}}

ImageInit ==
    /\ im_in \in Images \cup Quotes
    /\ im_out = NoRaster
    /\ im_by = "none"
    /\ chat_from = 432856100
    /\ sl_now = DateTime(0, 0, 0, 0)
    /\ sl_cfg = 0
    /\ sl_result = 0
    /\ sl_pc = "idle"
    /\ tm_msg = NoMessage
    /\ http_reply = "none"
    /\ MainInit

ImageRun(by, raster) ==
    /\ im_by = "none"
    /\ im_by' = by
    /\ im_out' = raster
    /\ UNCHANGED <<im_in, sleep_vars, tm_msg, http_reply, chat_from, main_vars>>

ImagePhoto ==
    /\ im_in.kind = "image"
    /\ ImageRun("process_photo", process_photo(im_in))
ImageComic ==
    /\ im_in.kind = "image"
    /\ ImageRun("pre_process_photo", pre_process_photo(im_in))
ImageQuote ==
    /\ im_in.kind = "quote"
    /\ ImageRun("process_friends_quote", process_friends_quote(im_in))

ImageNext ==
    \/ ImagePhoto
    \/ ImageComic
    \/ ImageQuote

SpecImage == ImageInit /\ [][ImageNext]_vars

----------------------------------------------------------------------------
(* Properties of the server (Spec)                                         *)

\* C1: in every reachable state at most one of friends_mode and xkcd_mode
\* is true, in memory and in what save_settings has written (which is what
\* load_settings restores).
C1_OneModeActive ==
    /\ ~(friends_mode /\ xkcd_mode)
    /\ settings_file.present =>
         ~(settings_file.friends_mode /\ settings_file.xkcd_mode)

\* xkcd_command, then friends_command, both returned, and no handler running
QuoteOnly == mode_hist = <<"xkcd", "friends">> /\ chat_pc = "idle"

QuotePcs == {"quote", "quote_w", "quote_done"}

\* C2: once xkcd_command and then friends_command have returned, a poll that
\* reaches its branch on the mode takes the quote path, and a poll on the
\* quote path goes on to its reply without a step of the comic path: no
\* copy of the slot, no refill submitted, no process_xkcd_comic.
C2_OnlyQuotePath ==
    [][\A c \in Conns :
         /\ (QuoteOnly /\ ws_pc[c] = "dispatch" /\ ws_pc'[c] # "dispatch")
              => ws_pc'[c] \in {"quote", "closed"}
         /\ (ws_pc[c] \in QuotePcs /\ ws_pc'[c] # ws_pc[c]
               /\ n_restarts' = n_restarts)
              => /\ ws_pc'[c] \in QuotePcs \cup {"sent", "closed"}
                 /\ UNCHANGED <<preloaded_file, preloaded_xkcd_image_ready,
                                refills>>]_vars

\* a poll has run the quote path after the two commands, with a prefetched
\* comic ready that the comic path would have taken
C2_Witness ==
    /\ QuoteOnly
    /\ preloaded_xkcd_image_ready
    /\ image_file = Whole("quote")
    /\ \E c \in Conns : ws_pc[c] = "sent" /\ ws_loc[c].reply_kind = "update"

\* C3: a poll gets exactly one reply before its handler takes the next
\* message; the reply is update or no_update and carries the duration the
\* Sleep Scheduler returned for this poll, whatever the generation did.
C3_OneReplyWithDuration ==
    [][\A c \in Conns :
         /\ (ws_pc[c] = "dispatch" /\ ws_pc'[c] \notin {"dispatch", "closed"})
              => \E now \in NowSamples :
                   ws_loc'[c].dur =
                     get_next_sleep_duration_minutes(now, update_duration_minutes)
         /\ (ws_pc[c] # "sent" /\ ws_pc'[c] = "sent")
              => /\ ws_loc[c].base = "checkForImage"
                 /\ ws_loc[c].replies = 0
                 /\ ws_loc'[c].replies = 1
                 /\ ws_loc'[c].reply_kind \in {"update", "no_update"}
                 /\ ws_loc'[c].reply_dur = ws_loc[c].dur
         /\ (ws_pc[c] \notin {"idle", "closed"} /\ ws_pc'[c] = "idle"
               /\ ws_loc[c].base = "checkForImage")
              => ws_pc[c] = "sent" /\ ws_loc[c].replies = 1]_vars

\* a night poll in QuoteMode whose generation failed, no image existing:
\* the reply is no_update with the night's duration
C3_Witness ==
    \E c \in Conns :
      /\ ws_pc[c] = "sent"
      /\ friends_mode
      /\ image_file = NoFile
      /\ ws_loc[c].replies = 1
      /\ ws_loc[c].reply_kind = "no_update"
      /\ ws_loc[c].reply_dur = 481

\* C4: a poll replies no_update as long as no image production has ever
\* succeeded, and update from the first success on.
C4_UpdateIffProduced ==
    [][\A c \in Conns :
         (ws_pc[c] # "sent" /\ ws_pc'[c] = "sent")
           => ws_loc'[c].reply_kind =
                IF ever_produced THEN "update" ELSE "no_update"]_vars

\* C5: the steps of a poll taken while both mode flags are false go from
\* the branch on the mode straight to the reply and change neither
\* image.png, xkcd_next.png, the readiness flag nor the refills.
C5_NormalPollGeneratesNothing ==
    [][\A c \in Conns :
         (/\ ~friends_mode /\ ~xkcd_mode
          /\ ws_pc[c] \in {"dispatch", "xkcd", "reply"}
          /\ ws_pc'[c] # ws_pc[c]
          /\ n_restarts' = n_restarts)
           => /\ ws_pc[c] = "dispatch" => ws_pc'[c] = "xkcd"
              /\ ws_pc[c] = "xkcd" => ws_pc'[c] = "reply"
              /\ ws_pc[c] = "reply" => ws_pc'[c] \in {"sent", "closed"}
              /\ UNCHANGED <<image_file, preloaded_file,
                             preloaded_xkcd_image_ready, refills>>]_vars

\* a poll answered in Normal mode (the one command so far was a photo or a
\* text): the photo's image is served as it is
C5_Witness ==
    /\ mode_hist = <<"none", "normal">>
    /\ chat_pc = "idle"
    /\ ~friends_mode /\ ~xkcd_mode
    /\ image_file = Whole("photo")
    /\ \E c \in Conns : ws_pc[c] = "sent" /\ ws_loc[c].reply_kind = "update"

\* what C6 says a message other than a poll leaves alone
C6_Frame ==
    <<image_file, friends_mode, xkcd_mode, update_duration_minutes,
      preloaded_file, preloaded_xkcd_image_ready, refills>>

\* C6: a message whose base command is not checkForImage gets no reply and
\* changes neither image.png, the mode, the daytime interval nor the
\* prefetch slot; its handler goes back to waiting for the next message.
C6_OtherMessagesIgnored ==
    [][\A c \in Conns :
         /\ (ws_pc[c] = "idle" /\ n_events' # n_events /\ chat_pc' = chat_pc
               /\ n_restarts' = n_restarts
               /\ ws_loc'[c].base # "checkForImage")
              => /\ ws_pc'[c] \in {"idle", "save"}
                 /\ ws_loc'[c].replies = 0
                 /\ UNCHANGED C6_Frame
         /\ (ws_pc[c] \in {"save", "save_w"} /\ ws_loc[c].base # "checkForImage"
               /\ ws_pc'[c] # ws_pc[c] /\ n_restarts' = n_restarts)
              => /\ ws_pc'[c] = IF ws_pc[c] = "save" THEN "save_w" ELSE "idle"
                 /\ UNCHANGED C6_Frame]_vars

\* a message "other|battery:55" is being handled in ComicMode with a
\* prefetched comic ready: the telemetry is stored, nothing else will move
C6_Witness ==
    /\ xkcd_mode
    /\ preloaded_xkcd_image_ready
    /\ m5_battery_percent = 55
    /\ \E c \in Conns : ws_pc[c] = "save" /\ ws_loc[c].base = "other"

\* C10: a take that tests the flag while the slot holds the payload of a
\* successful refill not copied yet copies that payload into image.png and
\* leaves the flag false; a take that tests the flag when the last payload
\* has been copied and no refill has succeeded since goes the slow way (for
\* xkcd_command: its own awaited fetch).
C10_TakeOncePerRefill ==
    [][/\ \A c \in Conns :
            /\ (ws_pc[c] = "ready" /\ ws_pc'[c] \notin {"ready", "closed"})
                 => ws_pc'[c] = IF slot_fresh THEN "copy" ELSE "slow"
            /\ (ws_pc[c] = "copy_w" /\ ws_pc'[c] = "clear"
                  /\ image_file = Partial(WsWriter(c)))
                 => image_file' = Whole("slot")
            /\ (ws_pc[c] = "clear" /\ ws_pc'[c] = "reply")
                 => ~preloaded_xkcd_image_ready'
       /\ (chat_pc = "x_check" /\ chat_pc' \notin {"x_check", "idle"})
            => chat_pc' = IF slot_fresh THEN "x_copy" ELSE "x_preload"
       /\ (chat_pc = "x_copy_w" /\ chat_pc' = "x_clear"
             /\ image_file = Partial(ChatWriter))
            => image_file' = Whole("slot")
       /\ (chat_pc = "x_clear" /\ chat_pc' = "idle" /\ n_restarts' = n_restarts)
            => ~preloaded_xkcd_image_ready']_vars

\* C11: the flag is true only while xkcd_next.png holds a completely written
\* image (so no refill is rewriting the file while the flag is true), and a
\* take never leaves an incompletely copied payload in image.png.
C11_ReadyOnlyWhenSlotWhole ==
    /\ preloaded_xkcd_image_ready => preloaded_file.st = "whole"
    /\ image_file.st # "broken"

\* the executions of preload_xkcd_comic under way: the fire-and-forget ones
\* and the one xkcd_command awaits
AwaitedPreloadPcs == {"x_preload", "x_preload_w", "x_preload_flag"}
RefillsInFlight ==
    Cardinality({i \in RefillSlots : refills[i] # "none"})
      + (IF chat_pc \in AwaitedPreloadPcs THEN 1 ELSE 0)

\* C12: at most one execution of preload_xkcd_comic is under way at any time.
C12_OneRefillInFlight == RefillsInFlight <= 1

\* a ComicMode poll leaves the test of line 767 for the slow path
SlowPathTaken(c) == ws_pc[c] = "ready" /\ ws_pc'[c] = "slow"

RefillFails ==
    \/ \E i \in RefillSlots : refills[i] = "fetch" /\ refills'[i] = "none"
    \/ chat_pc = "x_preload" /\ chat_pc' = "idle"

\* a new execution of preload_xkcd_comic starts
RefillStarts ==
    \/ \E i \in RefillSlots : refills[i] = "none" /\ refills'[i] = "fetch"
    \/ chat_pc # "x_preload" /\ chat_pc' = "x_preload"

\* a take clears the flag (lines 728-729, 772-773), or xkcd_command finds
\* the flag false (lines 719-720)
RefillTrigger ==
    \/ \E c \in Conns : ws_pc[c] = "clear" /\ ws_pc'[c] = "reply"
    \/ chat_pc = "x_clear" /\ chat_pc' = "idle"
    \/ chat_pc = "x_check" /\ chat_pc' = "x_preload"

\* C13: when a refill fails the readiness flag is false and image.png is as
\* it was, the failing step starts no refill, and a refill starts only in a
\* step of a take or of xkcd_command.
C13_FailedRefillLeavesFlagFalse ==
    [][/\ (RefillFails /\ n_restarts' = n_restarts)
            => /\ ~preloaded_xkcd_image_ready'
               /\ image_file' = image_file
               /\ ~RefillStarts
       /\ RefillStarts => RefillTrigger]_vars

\* no handler, no connection's message and no refill is under way
Quiescent ==
    /\ chat_pc = "idle"
    /\ \A c \in Conns : ws_pc[c] \in {"closed", "idle"}
    /\ \A i \in RefillSlots : refills[i] = "none"

\* what load_settings would restore from settings.json (lines 188-203)
Restored ==
    [update_duration_minutes |->
         Loaded(settings_file, "update_duration_minutes", 30),
     friends_mode |-> Loaded(settings_file, "friends_mode", FALSE),
     xkcd_mode |-> Loaded(settings_file, "xkcd_mode", FALSE),
     m5_battery_percent |-> Loaded(settings_file, "m5_battery_percent", 0)]

\* C16: whenever no operation is in progress, a restart would restore the
\* mode, the daytime interval and the battery value that are in memory.
C16_PersistedEqualsMemory ==
    Quiescent =>
        Restored = [update_duration_minutes |-> update_duration_minutes,
                    friends_mode |-> friends_mode,
                    xkcd_mode |-> xkcd_mode,
                    m5_battery_percent |-> m5_battery_percent]

----------------------------------------------------------------------------
(* Properties of the telemetry (SpecTelemetry)                             *)

\* the step that receives tm_msg
TelemetryReceived == n_events = 0 /\ n_events' = 1

\* C15: a message whose battery field is an integer stores that integer,
\* and settings.json holds it before line 761 tests the base command; a
\* message whose battery field is malformed (or absent) changes neither
\* the stored value nor settings.json, leaves the connection open, and its
\* base command is handled as usual: a poll is dispatched and gets its one
\* reply, any other command goes back to waiting.
C15_BatteryStoredBeforeDispatch ==
    [][IF tm_msg.battery.kind = "int"
       THEN /\ TelemetryReceived
                 => /\ m5_battery_percent' = tm_msg.battery.val
                    /\ ws_pc'[1] = "save"
            /\ ws_pc[1] = "save" => ws_pc'[1] = "save_w"
            /\ ws_pc[1] = "save_w"
                 => /\ settings_file'.present
                    /\ settings_file'.m5_battery_percent = tm_msg.battery.val
                    /\ ws_pc'[1] = IF tm_msg.base = "checkForImage"
                                   THEN "dispatch" ELSE "idle"
            /\ ws_pc'[1] = "dispatch"
                 => settings_file'.m5_battery_percent = m5_battery_percent'
       ELSE /\ UNCHANGED <<m5_battery_percent, settings_file>>
            /\ TelemetryReceived
                 => ws_pc'[1] = IF tm_msg.base = "checkForImage"
                                THEN "dispatch" ELSE "idle"
            /\ ws_pc'[1] # "closed"
            /\ ws_pc'[1] = "sent" => ws_loc'[1].replies = 1]_vars

\* "checkForImage|battery:55" has been received with 0 or 80 stored: 55 is
\* stored and saved, and the poll is about to be dispatched
C15_Witness ==
    /\ tm_msg = [base |-> "checkForImage", battery |-> [kind |-> "int", val |-> 55]]
    /\ ws_pc[1] = "dispatch"
    /\ m5_battery_percent = 55
    /\ settings_file.m5_battery_percent = 55

\* a photo or a text was the last command to return, no handler is running
NormalOnly == mode_hist[2] = "normal" /\ chat_pc = "idle"

\* save_settings of photo_handler and text_handler is about to write
SubmitWritePcs == {"p_save_w", "t_save_w"}

\* C17: photo_handler and text_handler leave both mode flags false in
\* memory and write them so to settings.json, whatever the mode was; once
\* such a handler has returned, a poll's branch on the mode goes straight
\* to the reply, its steps leave image.png as it is, and it replies update
\* when image.png exists.
C17_SubmitLeavesNormal ==
    [][/\ (chat_pc \in SubmitWritePcs /\ chat_pc' # chat_pc
             /\ n_restarts' = n_restarts)
            => /\ ~friends_mode' /\ ~xkcd_mode'
               /\ settings_file'.present
               /\ ~settings_file'.friends_mode /\ ~settings_file'.xkcd_mode
       /\ NormalOnly => (~friends_mode /\ ~xkcd_mode)
       /\ \A c \in Conns :
            (/\ NormalOnly
             /\ ws_pc[c] \in {"dispatch", "xkcd", "reply"}
             /\ ws_pc'[c] # ws_pc[c]
             /\ n_restarts' = n_restarts)
              => /\ ws_pc[c] = "dispatch" => ws_pc'[c] = "xkcd"
                 /\ ws_pc[c] = "xkcd" => ws_pc'[c] = "reply"
                 /\ ws_pc[c] = "reply" => ws_pc'[c] \in {"sent", "closed"}
                 /\ (ws_pc'[c] = "sent" /\ Exists(image_file))
                      => ws_loc'[c].reply_kind = "update"
                 /\ UNCHANGED image_file]_vars

\* a photo sent in QuoteMode has been processed and the poll after it is
\* answered with the photo's image
C17_Witness ==
    /\ mode_hist = <<"friends", "normal">>
    /\ chat_pc = "idle"
    /\ settings_file.present /\ ~settings_file.friends_mode
    /\ image_file = Whole("photo")
    /\ \E c \in Conns : ws_pc[c] = "sent" /\ ws_loc[c].reply_kind = "update"

\* an operation that produces image.png fails: process_friends_quote (from
\* friends_command or from a poll), process_photo (from photo_handler or
\* from the text rendering), process_xkcd_comic on the slow path
ImageOpFails ==
    \/ chat_pc \in {"f_quote", "p_photo", "t_photo"} /\ chat_pc' = "idle"
    \/ \E c \in Conns : ws_pc[c] = "quote" /\ ws_pc'[c] = "quote_done"
    \/ \E c \in Conns : ws_pc[c] = "slow" /\ ws_pc'[c] = "reply"

\* C18: a failing image operation leaves image.png as it was and closes no
\* connection, and the poll it failed in goes on to its reply: update when
\* image.png exists, no_update otherwise.
C18_FailureKeepsImage ==
    [][/\ (ImageOpFails /\ n_restarts' = n_restarts)
            => /\ image_file' = image_file
               /\ \A c \in Conns : ws_pc'[c] = "closed" => ws_pc[c] = "closed"
       /\ \A c \in Conns :
            (ws_pc[c] \in {"quote_done", "reply"} /\ ws_pc'[c] # ws_pc[c]
               /\ n_restarts' = n_restarts)
              => /\ ws_pc'[c] \in {"sent", "closed"}
                 /\ ws_pc'[c] = "sent"
                      => ws_loc'[c].reply_kind =
                           IF Exists(image_file) THEN "update" ELSE "no_update"]_vars

\* a photo was processed, then /friends returned, and the quote generation
\* of the poll that followed has failed like that of /friends before it:
\* image.png is still the photo's, and the poll is about to reply
C18_Witness ==
    /\ mode_hist = <<"normal", "friends">>
    /\ chat_pc = "idle"
    /\ friends_mode
    /\ image_file = Whole("photo")
    /\ \E c \in Conns : ws_pc[c] = "quote_done"

----------------------------------------------------------------------------
(* Properties of the Image Origin Server (SpecOrigin)                      *)

\* C19: a request answered with image bytes gets a completely written
\* image.
C19_ServedImageWhole == http_reply \in {"none", "404", "whole"}

----------------------------------------------------------------------------
(* Properties of two connections (SpecTwo)                                 *)

\* a poll is at its image work: generating a quote card (line 765) or
\* fetching and normalizing a comic on the slow path (lines 776, 778)
ImageWorkPcs == {"quote", "quote_w", "slow", "slow_w"}

\* C20: while one connection's poll is at its image work, another
\* connection's handler can take its next message, and can send the reply
\* of a poll whose own image work is done.
C20_OtherConnectionsServed ==
    \A c \in Conns :
        ws_pc[c] \in ImageWorkPcs =>
            \A d \in Conns \ {c} :
                /\ (ws_pc[d] = "idle" /\ n_events < MaxEvents)
                     => ENABLED ws_receive(d)
                /\ ws_pc[d] = "quote_done" => ENABLED ws_reply(d)

\* a take opens the slot for copying (lines 726, 770)
TakeCopies ==
    \/ \E c \in Conns : ws_pc[c] = "copy" /\ ws_pc'[c] = "copy_w"
    \/ chat_pc = "x_copy" /\ chat_pc' = "x_copy_w"

\* C21: the test, copy and clearing of a take are atomic with respect to
\* the flag: a take copies only a payload no take has copied before, and
\* the flag a refill's completion has set stays true until a take has
\* copied that refill's payload.
C21_TakeAtomic ==
    [][/\ TakeCopies => slot_fresh
       /\ slot_fresh' => preloaded_xkcd_image_ready']_vars

----------------------------------------------------------------------------
(* Properties of callback queries (SpecCallback)                           *)

\* C22: in every reachable state the configured daytime interval is an
\* integer of at least 1, and so is the value settings.json holds.
C22_IntervalPositive ==
    /\ update_duration_minutes \in Nat \ {0}
    /\ settings_file.present => settings_file.update_duration_minutes \in Nat \ {0}

----------------------------------------------------------------------------
(* Properties of the Image Normalizer (SpecImage)                          *)

\* C23: every raster written by a content path is 540 wide and 960 high
\* and shows at most 16 colors.
C23_RasterFixedSizeAndPalette ==
    im_by # "none" =>
        /\ im_out.size = <<540, 960>>
        /\ Cardinality(im_out.content \cup im_out.background) <= 16
        /\ Cardinality(im_out.palette) <= 16

\* the source's width and height after the portrait rotation
SourceW == IF im_in.size[1] > im_in.size[2] THEN im_in.size[2] ELSE im_in.size[1]
SourceH == IF im_in.size[1] > im_in.size[2] THEN im_in.size[1] ELSE im_in.size[2]
Normalized == im_by \in {"process_photo", "pre_process_photo"}
\* the raster shows a content scaled to the height hh
PastedAt(hh) ==
    /\ im_out.size = <<540, 960>>
    /\ im_out.top = (IF hh < 960 THEN (960 - hh) \div 2 ELSE 0)
    /\ im_out.rows = (IF im_out.top + hh > 960 THEN 960 - im_out.top ELSE hh)
\* round(n / d): the nearest integer, the even one of two equally near
Round(n, d) ==
    LET k == n \div d
    IN  IF 2 * (n - k * d) < d THEN k
        ELSE IF 2 * (n - k * d) > d THEN k + 1
        ELSE IF k % 2 = 0 THEN k ELSE k + 1

\* C24 as stated: the content is scaled to the height round(H * 540 / W)
\* and pasted at y = (960 - height) // 2 when the height is below 960, else
\* at y = 0, the rows from 960 on cut.
C24_HeightIsRound ==
    Normalized => PastedAt(Round(SourceH * 540, SourceW))

\* C24: the content is scaled to a height that is an integer nearest to
\* H * 540 / W (either neighbour when H * 540 / W lies exactly between two
\* integers) and pasted at y = (960 - height) // 2 when the height is below
\* 960, else at y = 0, the rows from 960 on cut.
C24_HeightIsNearest ==
    Normalized =>
        \E hh \in {(SourceH * 540) \div SourceW, (SourceH * 540) \div SourceW + 1} :
            /\ 2 * Abs(hh * SourceW - SourceH * 540) <= SourceW
            /\ PastedAt(hh)

C24_Witness ==
    /\ im_by = "process_photo"
    /\ im_in.size = <<200, 335>>
    /\ im_out.top = 27
    /\ im_out.rows = 905

\* C25: the two normalizers write the same raster for the same input: what
\* pre_process_photo has written is what process_photo writes for that
\* input, and the other way round.
C25_SameRaster ==
    /\ im_by = "pre_process_photo" => im_out = process_photo(im_in)
    /\ im_by = "process_photo" => im_out = pre_process_photo(im_in)

\* C26: the content of a normalized raster was scaled to a height of at
\* least 540: it is pasted at a row between 0 and 210 and covers at least
\* 540 of the 960 rows.
C26_PortraitCoversHalf ==
    Normalized =>
        /\ new_h(SourceW, SourceH) >= 540
        /\ im_out.top \in 0..210
        /\ im_out.rows >= 540

\* a landscape source, turned before scaling
C26_Witness ==
    /\ im_by = "pre_process_photo"
    /\ im_in.size = <<4, 3>>
    /\ im_out.top = 120
    /\ im_out.rows = 720

----------------------------------------------------------------------------
(* Properties of updates from any chat (SpecChats)                         *)

\* C28: an update from a chat that is not in ALLOWED_CHAT_IDS changes
\* nothing the device can observe: its handler does not run (the chat
\* thread only answers "Unauthorized"), and the steps the chat thread takes
\* for it leave the mode, the interval, settings.json, the image, the
\* prefetch slot, the readiness flag and the refills as they are.
C28_UnauthorizedChangesNothing ==
    [][chat_from \notin ALLOWED_CHAT_IDS =>
         /\ chat_pc' \in {"idle", "denied"}
         /\ (chat_pc' # chat_pc \/ chat_data' # chat_data) =>
                UNCHANGED <<mode_vars, update_duration_minutes, settings_file,
                            image_file, preloaded_file,
                            preloaded_xkcd_image_ready, refills>>]_vars

\* a stranger's update is being refused after /friends of an allowed chat
\* has taken effect
C28_Witness ==
    /\ chat_from \notin ALLOWED_CHAT_IDS
    /\ chat_pc = "denied"
    /\ friends_mode
    /\ settings_file.present
    /\ Exists(image_file)

----------------------------------------------------------------------------
(* Properties of the Sleep Scheduler (SpecSleep)                           *)

NightStartSecond == NIGHT_START_HOUR * 3600 + NIGHT_START_MINUTE * 60
MorningSecond == MORNING_WAKE_HOUR * 3600 + MORNING_WAKE_MINUTE * 60

\* the night window [22:30, 06:30) of the time of day
InWindow(t) ==
    SecondOfDay(t) >= NightStartSecond \/ SecondOfDay(t) < MorningSecond

\* the next 06:30 strictly after t, in seconds since the midnight before t
TargetSecond(t) ==
    IF SecondOfDay(t) >= NightStartSecond THEN 86400 + MorningSecond
    ELSE MorningSecond

\* the second reached r minutes after t, on the same scale (the microsecond
\* of that instant is t's)
WakeSecond(t, r) == SecondOfDay(t) + 60 * r

\* C7: outside the night window, 06:30:00 <= time of day < 22:30:00, the
\* configured interval is returned unchanged.
C7_DayReturnsConfigured ==
    (sl_pc = "done" /\ ~InWindow(sl_now)) => sl_result = sl_cfg

C7_Witness ==
    /\ sl_pc = "done"
    /\ sl_now = DateTime(6, 30, 0, 0)
    /\ sl_cfg = 30
    /\ sl_result = 30

\* C8: inside the night window, 22:30:00 included, the result r is the whole
\* minutes until the next 06:30 plus one, whatever the configured interval:
\* now + (r - 1) min <= target < now + r min; 480 at 22:31 and 2 at 06:29.
C8_NightWholeMinutesPlusOne ==
    (sl_pc = "done" /\ InWindow(sl_now)) =>
      /\ \/ WakeSecond(sl_now, sl_result - 1) < TargetSecond(sl_now)
         \/ /\ WakeSecond(sl_now, sl_result - 1) = TargetSecond(sl_now)
            /\ sl_now.microsecond = 0
      /\ \/ TargetSecond(sl_now) < WakeSecond(sl_now, sl_result)
         \/ /\ TargetSecond(sl_now) = WakeSecond(sl_now, sl_result)
            /\ sl_now.microsecond > 0
      /\ sl_now = DateTime(22, 31, 0, 0) => sl_result = 480
      /\ sl_now = DateTime(6, 29, 0, 0) => sl_result = 2

C8_Witness ==
    /\ sl_pc = "done"
    /\ sl_now = DateTime(22, 30, 0, 0)
    /\ sl_cfg = 30
    /\ sl_result = 481

\* C9: inside the night window the wake instant now + r minutes is at or
\* after the targeted 06:30, never before it.
C9_WakeNotBeforeTarget ==
    (sl_pc = "done" /\ InWindow(sl_now)) =>
      TargetSecond(sl_now) <= WakeSecond(sl_now, sl_result)

\* one microsecond before 06:30: one minute, waking at 06:30:59.999999
C9_Witness ==
    /\ sl_pc = "done"
    /\ sl_now = DateTime(6, 29, 59, 999999)
    /\ sl_result = 1
\* C27: inside the night window the result r is between 1 and 481, and the
\* wake instant now + r minutes is later than the targeted 06:30:00 by at
\* most 60 seconds: it lies in (06:30:00, 06:31:00], outside the night
\* window, so the poll made then takes the daytime branch.
C27_WakeWithinMinuteAfterTarget ==
    (sl_pc = "done" /\ InWindow(sl_now)) =>
      /\ sl_result \in 1..481
      /\ \/ TargetSecond(sl_now) < WakeSecond(sl_now, sl_result)
         \/ /\ TargetSecond(sl_now) = WakeSecond(sl_now, sl_result)
            /\ sl_now.microsecond > 0
      /\ \/ WakeSecond(sl_now, sl_result) < TargetSecond(sl_now) + 60
         \/ /\ WakeSecond(sl_now, sl_result) = TargetSecond(sl_now) + 60
            /\ sl_now.microsecond = 0
      /\ WakeSecond(sl_now, sl_result) % 86400 >= MorningSecond
      /\ WakeSecond(sl_now, sl_result) % 86400 < NightStartSecond

\* a poll at 06:29:00 sharp: two minutes, waking at 06:31:00 sharp
C27_Witness ==
    /\ sl_pc = "done"
    /\ sl_now = DateTime(6, 29, 0, 0)
    /\ sl_result = 2

====
